---------------------------- MODULE Spec2Model ----------------------------
(***************************************************************************)
(* A model of corenlpy's AnnotatedText (src/corenlpy/annotated_text.py):   *)
(* the construction of the document from CoreNLP markup (tokens,           *)
(* dependency edges, entity spans, coreference chains) and the linking of  *)
(* an AIDA feed onto it.                                                   *)
(*                                                                         *)
(* Python objects are dictionaries with identity.  Token dictionaries live *)
(* in their sentence (sentences[s+1].tokens[i+1]) and are named elsewhere  *)
(* by the key <<sentence_id, id>>.  Mention-like dictionaries (coreference *)
(* mentions, entities, mentions made at link time) live in mheap and       *)
(* reference dictionaries in rheap; a list of such objects is a sequence   *)
(* of heap indices.  Python's 0-based ids are kept as values; a TLA+       *)
(* sequence holding the object with id i holds it at position i + 1.       *)
(***************************************************************************)
EXTENDS Integers, Sequences, FiniteSets, TLC

VARIABLES
    pc,                          \* position in AnnotatedText.__init__
    config,                      \* the options stored on self
    attrs,                       \* names of the attributes set on self so far
    sentences,                   \* self.sentences
    tokens,                      \* self.tokens (keys of the token objects)
    tokens_by_offset,            \* self.tokens_by_offset
    sentence,                    \* _read_sentence: the sentence being read
    mheap,                       \* the mention-like dictionaries
    rheap,                       \* the reference dictionaries
    coreferences,                \* self.coreferences
    coreference,                 \* _build_coreferences: the chain being read
    references,                  \* self.references
    next_coref_id,               \* self.next_coref_id
    ref_ptr,                     \* _read_aida_json: position of the reference loop
    disambiguated_references,    \* self.disambiguated_references
    iter,                        \* iterations done of the loop pc is in
    inner,                       \* iterations done of the loop nested in it
    exception,                   \* the exception that ended __init__, if any
    call                         \* the last call of interest: arguments and result

vars == <<pc, config, attrs, sentences, tokens, tokens_by_offset, sentence,
          mheap, rheap, coreferences, coreference, references, next_coref_id,
          ref_ptr, disambiguated_references, iter, inner, exception, call>>

---------------------------------------------------------------------------
(* Values standing for Python's None and for a key a dictionary lacks.     *)

None == -1
NoneToken == <<None, None>>
NoKbid == ""
NoCall == [fn |-> "none"]

Range(f) == {f[x] : x \in DOMAIN f}

RECURSIVE SeqsUpTo(_, _)
SeqsUpTo(S, n) ==
    IF n = 0 THEN {<<>>}
    ELSE LET shorter == SeqsUpTo(S, n - 1)
         IN  shorter \cup {Append(q, x) : q \in {r \in shorter : Len(r) = n - 1}, x \in S}

Min(S) == CHOOSE x \in S : \A y \in S : x <= y
Max(S) == CHOOSE x \in S : \A y \in S : x >= y

---------------------------------------------------------------------------
(* _get_coverage_score and _find_best_mention_overlap.                     *)
(* A score is the pair <<intersection_size, union_size>> standing for the  *)
(* float intersection_size / float(union_size); union_size > 0 whenever    *)
(* one of the two ranges is non-empty, and for the small integers of the   *)
(* model two quotients are equal or ordered as floats exactly as they are  *)
(* as rationals, so scores are compared by cross-multiplication.           *)

get_coverage_score_intersection(range1, range2) ==
    <<Min({range1[2], range2[2]}) - Max({range1[1], range2[1]}), 1>>

get_coverage_score(range1, range2) ==
    LET intersection_start == Max({range1[1], range2[1]})
        intersection_end == Min({range1[2], range2[2]})
        intersection_size == intersection_end - intersection_start
        union_start == Min({range1[1], range2[1]})
        union_end == Max({range1[2], range2[2]})
        union_size == union_end - union_start
    IN  <<intersection_size, union_size>>

ScoreLess(a, b) == a[1] * b[2] < b[1] * a[2]
ScoreEq(a, b) == a[1] * b[2] = b[1] * a[2]
ScoreLeq(a, b) == a[1] * b[2] <= b[1] * a[2]

\* The character range of a mention: first token's begin, last token's end.
mention_range(mention) ==
    <<mention.tokens[1].character_offset_begin,
      mention.tokens[Len(mention.tokens)].character_offset_end>>

coverage_scores(mentions, start, end) ==
    [i \in 1..Len(mentions) |->
        get_coverage_score(mention_range(mentions[i]), <<start, end>>)]

\* sorted(zip(coverage_scores, mentions), reverse=True)[0]: the greatest
\* (score, mention) pair.  Equal scores are ordered by Python 2's ordering
\* of the mention dictionaries, which the source does not control: any of
\* the top-scoring mentions may come first.  The result is the set of
\* positions (1-based) that may be returned.
find_best_mention_overlap_lowest(mentions, start, end) ==
    LET scores == coverage_scores(mentions, start, end)
    IN  {i \in 1..Len(mentions) :
            \A j \in 1..Len(mentions) : ScoreLeq(scores[i], scores[j])}

find_best_mention_overlap(mentions, start, end) ==
    LET scores == coverage_scores(mentions, start, end)
    IN  {i \in 1..Len(mentions) :
            \A j \in 1..Len(mentions) : ScoreLeq(scores[j], scores[i])}

---------------------------------------------------------------------------
(* Class constants and the options of __init__.                            *)

EXCLUDE_NER_TYPES ==
    {"TIME", "DATE", "NUMBER", "DURATION", "PERCENT", "SET", "ORDINAL", "MONEY"}
LEGAL_DEPENDENCY_TYPES == {"collapsed-ccprocessed", "collapsed", "basic"}

\* ner of a token whose <NER> text is "O".
NoneNer == "None"

\* The layout of the text the markup annotates: every word is WordLen
\* characters long and followed by Gap characters of white space.  MarkupLen
\* is what the XML adds to the length of self.text.
WordLen == 2
Gap == 1
MarkupLen == 8
Stride == WordLen + Gap

Options(deps, ordinal, long, threshold, non_ner, xml, aida) ==
    [dependencies |-> deps, exclude_ordinal_NERs |-> ordinal,
     exclude_long_mentions |-> long, long_mention_threshold |-> threshold,
     exclude_non_ner_coreferences |-> non_ner,
     corenlp_xml |-> xml, aida_json |-> aida]

NoOptions == Options("", FALSE, FALSE, 0, FALSE, FALSE, FALSE)

\* The check of the option at the head of __init__.
init_accepts_any_dependencies(dependencies) == TRUE

init_accepts_dependencies(dependencies) == dependencies \in LEGAL_DEPENDENCY_TYPES

\* The type attribute _read_dependencies looks for, or its ValueError.
dependencies_type(dependencies) ==
    CASE dependencies = "collapsed-ccprocessed" -> "collapsed-ccprocessed-dependencies"
      [] dependencies = "collapsed" -> "collapsed-dependencies"
      [] dependencies = "basic" -> "basic-dependencies"
      [] OTHER -> "ValueError"

---------------------------------------------------------------------------
(* Tokens, sentences and the dependency graph.                             *)

\* _read_tokens: one Token.  word, lemma, pos and speaker are read but no
\* operation modelled here depends on them.  entity_idx is set by
\* _read_entities.
Token(sentence_id, id, ner_text, begin, end) ==
    [id |-> id, sentence_id |-> sentence_id,
     ner |-> IF ner_text = "O" THEN NoneNer ELSE ner_text,
     character_offset_begin |-> begin, character_offset_end |-> end,
     children |-> <<>>, parents |-> <<>>, mentions |-> <<>>,
     entity_idx |-> None]

\* _read_sentence, up to the dependency loop: the Sentence with its tokens
\* and an empty Token() as root.  first is the character offset of the
\* sentence's first word.
Sentence(id, ner_texts, first) ==
    [id |-> id,
     tokens |-> [i \in 1..Len(ner_texts) |->
                    Token(id, i - 1, ner_texts[i],
                          first + (i - 1) * Stride,
                          first + (i - 1) * Stride + WordLen)],
     root |-> None,
     entities |-> <<>>, mentions |-> <<>>, references |-> <<>>]

NoSentence == [id |-> None]

RECURSIVE Flatten(_)
Flatten(seqs) ==
    IF seqs = <<>> THEN <<>> ELSE Head(seqs) \o Flatten(Tail(seqs))

\* collect_descendents: the list of the ids of token and of all that its
\* children lists lead to.  toks are the tokens of the token's sentence.
collect_descendents_children_only(toks, id) ==
    <<id>> \o [k \in 1..Len(toks[id + 1].children) |-> toks[id + 1].children[k][2]]

RECURSIVE collect_descendents(_, _)
collect_descendents(toks, id) ==
    <<id>> \o Flatten([k \in 1..Len(toks[id + 1].children) |->
                          collect_descendents(toks, toks[id + 1].children[k][2])])

\* One iteration of the loop of _read_dependencies over a <dep> whose
\* governor and dependent idx attributes are governor and dependent (1-based,
\* governor 0 for the root) and whose type is dep_type.
read_dependency(s, governor, dependent, dep_type) ==
    LET dependent_idx == dependent - 1
        governor_idx == governor - 1
    IN  IF governor_idx < 0
        THEN [s EXCEPT !.root = dependent_idx,
                       !.tokens[dependent_idx + 1].parents = <<>>]
        ELSE IF \E k \in 1..Len(collect_descendents(s.tokens, dependent_idx)) :
                    collect_descendents(s.tokens, dependent_idx)[k] = governor_idx
        THEN s
        ELSE [s EXCEPT
                !.tokens = [i \in 1..Len(s.tokens) |->
                    [s.tokens[i] EXCEPT
                        !.children = IF i = governor_idx + 1
                                     THEN Append(@, <<dep_type, dependent_idx>>)
                                     ELSE @,
                        !.parents = IF i = dependent_idx + 1
                                    THEN Append(@, <<dep_type, governor_idx>>)
                                    ELSE @]]]

---------------------------------------------------------------------------
(* Head finding and entity spans.                                          *)

\* Python's == between a relation label (a string) and a Token (a
\* dictionary): values of different types are never equal.
PyStr(x) == [type |-> "str", value |-> <<x>>]
PyToken(token) == [type |-> "Token", value |-> <<token.sentence_id, token.id>>]
PyEq(a, b) == a.type = b.type /\ a.value = b.value

\* The test of find_head on one token of the span:
\*   any([t[0] in tokens for t in token['parents']])
\* t is a (dep_type, governor) pair and t[0] its first component.
any_parent_in(token, span) ==
    \E p \in 1..Len(token.parents) :
        \E k \in 1..Len(span) : PyEq(PyStr(token.parents[p][1]), PyToken(span[k]))

\* The loop of find_head over span[i..]: head is the last token that is not
\* skipped (the loop has no break).
RECURSIVE find_head_loop(_, _, _)
find_head_loop(span, i, head) ==
    IF i > Len(span) THEN head
    ELSE LET token == span[i]
         IN  IF "parents" \notin DOMAIN token /\ "children" \notin DOMAIN token
             THEN find_head_loop(span, i + 1, head)
             ELSE IF "parents" \notin DOMAIN token
             THEN find_head_loop(span, i + 1, head)
             ELSE IF any_parent_in(token, span)
             THEN find_head_loop(span, i + 1, head)
             ELSE find_head_loop(span, i + 1, <<token.sentence_id, token.id>>)

\* find_head: span is a list of Token dictionaries; the result is the key of
\* the head token or NoneToken.
find_head(span) ==
    IF Len(span) = 1 THEN <<span[1].sentence_id, span[1].id>>
    ELSE find_head_loop(span, 1, NoneToken)

\* The scan of _read_entities.  st.entities are the closed entities (each the
\* list of its token ids), st.cur_entity the open one (<<>> for None),
\* st.entity_idx_of the entity_idx given to each token read so far.
read_entities_start ==
    [entities |-> <<>>, last_entity_type |-> NoneNer, cur_entity |-> <<>>,
     entity_idx |-> -1, entity_idx_of |-> <<>>]

read_entities_token_keep_type(st, token, exclude_ordinal_NERs) ==
    LET exclude == exclude_ordinal_NERs /\ token.ner \in EXCLUDE_NER_TYPES
        closed == IF st.cur_entity # <<>> THEN Append(st.entities, st.cur_entity)
                  ELSE st.entities
    IN  IF token.ner = NoneNer \/ exclude
        THEN [st EXCEPT !.entity_idx_of = Append(@, None),
                        !.entities = closed,
                        !.cur_entity = <<>>]
        ELSE IF token.ner = st.last_entity_type
        THEN [st EXCEPT !.cur_entity = Append(@, token.id),
                        !.entity_idx_of = Append(@, st.entity_idx)]
        ELSE [st EXCEPT !.entities = closed,
                        !.entity_idx = @ + 1,
                        !.cur_entity = <<token.id>>,
                        !.entity_idx_of = Append(@, st.entity_idx + 1),
                        !.last_entity_type = token.ner]

read_entities_token(st, token, exclude_ordinal_NERs) ==
    LET exclude == exclude_ordinal_NERs /\ token.ner \in EXCLUDE_NER_TYPES
        closed == IF st.cur_entity # <<>> THEN Append(st.entities, st.cur_entity)
                  ELSE st.entities
        st1 == IF token.ner = NoneNer \/ exclude
               THEN [st EXCEPT !.entity_idx_of = Append(@, None),
                               !.entities = closed,
                               !.cur_entity = <<>>]
               ELSE IF token.ner = st.last_entity_type
               THEN [st EXCEPT !.cur_entity = Append(@, token.id),
                               !.entity_idx_of = Append(@, st.entity_idx)]
               ELSE [st EXCEPT !.entities = closed,
                               !.entity_idx = @ + 1,
                               !.cur_entity = <<token.id>>,
                               !.entity_idx_of = Append(@, st.entity_idx + 1)]
    IN  [st1 EXCEPT !.last_entity_type = token.ner]

RECURSIVE read_entities_scan(_, _, _, _)
read_entities_scan(toks, i, st, exclude_ordinal_NERs) ==
    IF i > Len(toks)
    THEN IF st.cur_entity # <<>>
         THEN [st EXCEPT !.entities = Append(@, st.cur_entity), !.cur_entity = <<>>]
         ELSE st
    ELSE read_entities_scan(toks, i + 1,
            read_entities_token(st, toks[i], exclude_ordinal_NERs),
            exclude_ordinal_NERs)

\* A mention-like dictionary.  start, end and reference are None, and
\* kbIdentifier is NoKbid, until the key is set.
Mention(sentence_id, toks, head) ==
    [sentence_id |-> sentence_id, tokens |-> toks, head |-> head,
     start |-> None, end |-> None, reference |-> None,
     kbIdentifier |-> NoKbid, disambiguationScore |-> None, types |-> <<>>]

\* _read_entities: the entities of the sentence s (those with a head), as
\* mention-like dictionaries, and the tokens with their entity_idx.
read_entities(s, exclude_ordinal_NERs) ==
    LET st == read_entities_scan(s.tokens, 1, read_entities_start, exclude_ordinal_NERs)
        toks == [i \in 1..Len(s.tokens) |->
                    [s.tokens[i] EXCEPT !.entity_idx = st.entity_idx_of[i]]]
        entity(ids) ==
            Mention(s.id, [k \in 1..Len(ids) |-> <<s.id, ids[k]>>],
                    find_head([k \in 1..Len(ids) |-> toks[ids[k] + 1]]))
        all == [e \in 1..Len(st.entities) |-> entity(st.entities[e])]
        HasHead(e) == e.head # NoneToken
    IN  [tokens |-> toks, entities |-> SelectSeq(all, HasHead)]

---------------------------------------------------------------------------
(* __init__, _read_stanford_xml and _read_all_sentences.                   *)

NoCoreference == [id |-> None, mentions |-> <<>>, representative |-> None]
NoException == ""

Init ==
    /\ pc = "init"
    /\ config = NoOptions
    /\ attrs = {}
    /\ sentences = <<>>
    /\ tokens = <<>>
    /\ tokens_by_offset = [o \in {} |-> NoneToken]
    /\ sentence = NoSentence
    /\ mheap = <<>>
    /\ rheap = <<>>
    /\ coreferences = <<>>
    /\ coreference = NoCoreference
    /\ references = <<>>
    /\ next_coref_id = None
    /\ ref_ptr = 0
    /\ disambiguated_references = <<>>
    /\ iter = 0
    /\ inner = 0
    /\ exception = NoException
    /\ call = NoCall

OptionAttrs ==
    {"exclude_ordinal_NERs", "exclude_long_mentions", "long_mention_threshold",
     "exclude_non_ner_coreferences"}

\* What _read_stanford_xml, _beautiful_soup_parse and the head of
\* _read_all_sentences set before the first sentence is read.
ReadingAttrs ==
    {"text", "soup", "sentences", "tokens", "tokens_by_offset", "num_sentences"}

Raise(name) ==
    /\ pc' = "raised"
    /\ exception' = name

\* __init__ up to the loop of _read_all_sentences, for options o.
Construct(OptionSet) ==
    /\ pc = "init"
    /\ \E o \in OptionSet :
        /\ config' = o
        /\ IF ~init_accepts_dependencies(o.dependencies)
           THEN /\ Raise("ValueError")
                /\ attrs' = OptionAttrs
           ELSE IF o.corenlp_xml
           THEN /\ pc' = "read_sentences"
                /\ exception' = exception
                /\ attrs' = OptionAttrs \cup {"dependencies"} \cup ReadingAttrs
           ELSE IF o.aida_json
           THEN /\ Raise("ValueError")
                /\ attrs' = OptionAttrs \cup {"dependencies"}
           ELSE /\ pc' = "done"
                /\ exception' = exception
                /\ attrs' = OptionAttrs \cup {"dependencies"}
    /\ UNCHANGED <<sentences, tokens, tokens_by_offset, sentence, mheap, rheap,
                   coreferences, coreference, references, next_coref_id, ref_ptr,
                   disambiguated_references, iter, inner, call>>

\* _read_sentence up to the loop of _read_dependencies, for a sentence tag
\* with Len(ner_texts) tokens: _read_tokens, no <parse> element, and the
\* choice of the dependencies element.  Shapes are the documents read: each
\* the lengths of its sentences.
ReadTokens(Shapes, NerTexts) ==
    /\ pc = "read_sentences"
    /\ \E shape \in Shapes :
        /\ Len(sentences) < Len(shape)
        /\ \A k \in 1..Len(sentences) : Len(sentences[k].tokens) = shape[k]
        /\ \E ner_texts \in [1..shape[Len(sentences) + 1] -> NerTexts] :
            sentence' = Sentence(Len(sentences), ner_texts, Len(tokens) * Stride)
    /\ IF dependencies_type(config.dependencies) = "ValueError"
       THEN Raise("ValueError") /\ iter' = iter
       ELSE pc' = "read_dependencies" /\ iter' = 0 /\ exception' = exception
    /\ UNCHANGED <<config, attrs, sentences, tokens, tokens_by_offset, mheap, rheap,
                   coreferences, coreference, references, next_coref_id, ref_ptr,
                   disambiguated_references, inner, call>>

\* One <dep> of the sentence being read.
ReadDependency(MaxDepTags, DepTags) ==
    /\ pc = "read_dependencies"
    /\ iter < MaxDepTags
    /\ \E dep \in DepTags :
        /\ dep.governor <= Len(sentence.tokens)
        /\ dep.dependent <= Len(sentence.tokens)
        /\ sentence' = read_dependency(sentence, dep.governor, dep.dependent, dep.type)
    /\ iter' = iter + 1
    /\ UNCHANGED <<pc, config, attrs, sentences, tokens, tokens_by_offset, mheap,
                   rheap, coreferences, coreference, references, next_coref_id,
                   ref_ptr, disambiguated_references, inner, exception, call>>

\* The rest of _read_sentence once the <dep> elements are read:
\* _read_entities, self.tokens.extend, self.tokens_by_offset.update, and the
\* append of _read_all_sentences.
EndSentence ==
    /\ pc = "read_dependencies"
    /\ LET read == read_entities(sentence, config.exclude_ordinal_NERs)
           s == [sentence EXCEPT
                   !.tokens = read.tokens,
                   !.entities = [e \in 1..Len(read.entities) |-> Len(mheap) + e]]
           keys == [i \in 1..Len(s.tokens) |-> <<s.id, i - 1>>]
           begins == {s.tokens[i].character_offset_begin : i \in 1..Len(s.tokens)}
           at(o) == CHOOSE i \in 1..Len(s.tokens) : s.tokens[i].character_offset_begin = o
       IN  /\ mheap' = mheap \o read.entities
           /\ sentences' = Append(sentences, s)
           /\ tokens' = tokens \o keys
           /\ tokens_by_offset' =
                [o \in DOMAIN tokens_by_offset \cup begins |->
                    IF o \in begins THEN keys[at(o)] ELSE tokens_by_offset[o]]
    /\ sentence' = NoSentence
    /\ pc' = "read_sentences"
    /\ iter' = 0
    /\ UNCHANGED <<config, attrs, rheap, coreferences, coreference, references,
                   next_coref_id, ref_ptr, disambiguated_references, inner,
                   exception, call>>

\* The end of the loop of _read_all_sentences and the head of
\* _build_coreferences.
EndSentences ==
    /\ pc = "read_sentences"
    /\ pc' = "build_coreferences"
    /\ attrs' = attrs \cup {"coreferences"}
    /\ iter' = 0
    /\ inner' = 0
    /\ UNCHANGED <<config, sentences, tokens, tokens_by_offset, sentence, mheap,
                   rheap, coreferences, coreference, references, next_coref_id,
                   ref_ptr, disambiguated_references, exception, call>>

---------------------------------------------------------------------------
(* The dependency graph of one sentence.                                   *)

\* One sentence of NumTokensDeps tokens and up to MaxDeps <dep> elements.
MaxDeps == 3
NumTokensDeps == 3
DepTagsDeps ==
    {[governor |-> g, dependent |-> d, type |-> "nsubj"] :
        g \in 0..NumTokensDeps, d \in 1..NumTokensDeps}

OptionsDeps == {Options("basic", FALSE, FALSE, 5, FALSE, TRUE, FALSE)}

NextDeps ==
    \/ Construct(OptionsDeps)
    \/ ReadTokens({<<NumTokensDeps>>}, {"O"})
    \/ ReadDependency(MaxDeps, DepTagsDeps)
    \/ EndSentence
    \/ EndSentences

SpecDeps == Init /\ [][NextDeps]_vars

\* The ids one child edge away from id, and one or more child edges away.
ChildIds(toks, id) ==
    {toks[id + 1].children[k][2] : k \in 1..Len(toks[id + 1].children)}

RECURSIVE ChildClosure(_, _, _)
ChildClosure(toks, reached, n) ==
    IF n = 0 THEN reached
    ELSE ChildClosure(toks,
            reached \cup UNION {ChildIds(toks, id) : id \in reached}, n - 1)

ProperDescendants(toks, id) == ChildClosure(toks, ChildIds(toks, id), Len(toks))

Acyclic(toks) == \A i \in 1..Len(toks) : (i - 1) \notin ProperDescendants(toks, i - 1)

NumChildEdges(toks) ==
    Len(Flatten([i \in 1..Len(toks) |-> toks[i].children]))

\* C1: whatever <dep> elements have been read, in whatever order, no token of
\* a sentence (the one being read or one already read) is reachable from
\* itself by following one or more child edges.
C1_DependencyGraphAcyclic ==
    /\ sentence # NoSentence => Acyclic(sentence.tokens)
    /\ \A s \in 1..Len(sentences) : Acyclic(sentences[s].tokens)

\* C1's case: three ordinary <dep> elements were read (no root edge, so root
\* is still unset), two of them made a path of two child edges, and the
\* third was refused by the cycle guard.
C1_Witness ==
    /\ pc = "read_dependencies"
    /\ iter = 3
    /\ sentence.root = None
    /\ NumChildEdges(sentence.tokens) = 2
    /\ \E i \in 1..Len(sentence.tokens) :
          ProperDescendants(sentence.tokens, i - 1) \ ChildIds(sentence.tokens, i - 1) # {}

---------------------------------------------------------------------------
(* _build_coreferences and _standardize_coreferencing.                     *)

RECURSIVE Orderings(_)
Orderings(S) ==
    IF S = {} THEN {<<>>}
    ELSE UNION {{<<x>> \o q : q \in Orderings(S \ {x})} : x \in S}

\* _get_next_coref_id: the value self.next_coref_id takes when it is cur
\* (None when the attribute is not set yet); the id returned is that value
\* minus one.
get_next_coref_id(cur) == IF cur = None THEN 1 ELSE cur + 1

\* self.next_coref_id after n more calls.
RECURSIVE coref_id_after(_, _)
coref_id_after(cur, n) ==
    IF n = 0 THEN cur ELSE get_next_coref_id(coref_id_after(cur, n - 1))

Reference(id, mentions, representative) ==
    [id |-> id, mentions |-> mentions, representative |-> representative,
     kbIdentifier |-> NoKbid, types |-> <<>>]

\* The <mention> elements a chain may hold: sentence, start, end and head are
\* 1-based as in the markup, end is exclusive, the head lies in the span.
MentionTags ==
    {[sentence |-> s, start |-> b, end |-> e, headword |-> h, representative |-> r] :
        s \in 1..Len(sentences), b \in 1..3, e \in 2..4, h \in 1..3, r \in BOOLEAN}

WellFormedTag(tag) ==
    /\ tag.sentence \in 1..Len(sentences)
    /\ tag.start < tag.end
    /\ tag.end <= Len(sentences[tag.sentence].tokens) + 1
    /\ tag.start <= tag.headword
    /\ tag.headword < tag.end

\* The head of the loop of _build_coreferences over a <coreference> element.
\* iter counts the chains read and inner the <mention> elements of all of
\* them; a chain is begun only while a <mention> element is left to read.
BeginCoreference(MaxCoreferences, MaxMentionTags) ==
    /\ pc = "build_coreferences"
    /\ iter < MaxCoreferences
    /\ inner < MaxMentionTags
    /\ next_coref_id' = get_next_coref_id(next_coref_id)
    /\ attrs' = attrs \cup {"next_coref_id"}
    /\ coreference' = [id |-> next_coref_id' - 1, mentions |-> <<>>,
                       representative |-> None]
    /\ pc' = "read_mentions"
    /\ UNCHANGED <<config, sentences, tokens, tokens_by_offset, sentence, mheap,
                   rheap, coreferences, references, ref_ptr,
                   disambiguated_references, iter, inner, exception, call>>

\* sentence['tokens'][start:end], as the keys of the tokens.
token_slice(s, start, end) ==
    [k \in 1..(end - start) |-> <<s.id, start + k - 1>>]

\* The filter of long mentions.
do_exclude(mention_tokens) ==
    /\ config.exclude_long_mentions
    /\ Len(mention_tokens) > config.long_mention_threshold

\* The chain after one <mention> element; new is the place the mention is
\* stored at when kept.
read_mention_flag_first(chain, tag, new) ==
    LET s == sentences[tag.sentence]
        flagged == IF tag.representative
                   THEN [chain EXCEPT !.representative = new] ELSE chain
    IN  IF do_exclude(token_slice(s, tag.start - 1, tag.end - 1))
        THEN flagged
        ELSE [flagged EXCEPT !.mentions = Append(@, new)]

read_mention(chain, tag, new) ==
    LET s == sentences[tag.sentence]
    IN  IF do_exclude(token_slice(s, tag.start - 1, tag.end - 1))
        THEN chain
        ELSE [chain EXCEPT
                !.representative = IF tag.representative THEN new ELSE @,
                !.mentions = Append(@, new)]

\* One <mention> element of the chain being read.
ReadMention(MaxMentionTags, Tags) ==
    /\ pc = "read_mentions"
    /\ inner < MaxMentionTags
    /\ \E tag \in Tags :
        /\ WellFormedTag(tag)
        /\ LET s == sentences[tag.sentence]
               mention == Mention(s.id, token_slice(s, tag.start - 1, tag.end - 1),
                                  <<s.id, tag.headword - 1>>)
           IN  /\ coreference' = read_mention(coreference, tag, Len(mheap) + 1)
               /\ mheap' = IF do_exclude(mention.tokens) THEN mheap
                           ELSE Append(mheap, mention)
               /\ call' = [fn |-> "read_mention", tag |-> tag,
                           excluded |-> do_exclude(mention.tokens)]
    /\ inner' = inner + 1
    /\ UNCHANGED <<pc, config, attrs, sentences, tokens, tokens_by_offset, sentence,
                   rheap, coreferences, references, next_coref_id, ref_ptr,
                   disambiguated_references, iter, exception>>

\* The chain as _build_coreferences keeps it: with the first mention as
\* representative when none was flagged.
closed_coreference(chain) ==
    Reference(chain.id, chain.mentions,
              IF chain.representative = None THEN chain.mentions[1]
              ELSE chain.representative)

\* The end of the <mention> elements of a chain.
EndCoreference ==
    /\ pc = "read_mentions"
    /\ IF Len(coreference.mentions) < 1
       THEN UNCHANGED <<rheap, coreferences>>
       ELSE /\ rheap' = Append(rheap, closed_coreference(coreference))
            /\ coreferences' = Append(coreferences, Len(rheap) + 1)
    /\ coreference' = NoCoreference
    /\ pc' = "build_coreferences"
    /\ iter' = iter + 1
    /\ UNCHANGED <<config, attrs, sentences, tokens, tokens_by_offset, sentence,
                   mheap, references, next_coref_id, ref_ptr,
                   disambiguated_references, inner, exception, call>>

\* The signatures of _standardize_coreferencing.
all_entities == Flatten([s \in 1..Len(sentences) |-> sentences[s].entities])

signature(m) == <<mheap[m].sentence_id, mheap[m].head[2]>>

all_ner_signatures == {signature(all_entities[k]) : k \in 1..Len(all_entities)}

\* ner_entity_lookup[sig]: the last entity stored under sig.
ner_entity_lookup(sig) ==
    all_entities[Max({k \in 1..Len(all_entities) : signature(all_entities[k]) = sig})]

coref_signature(r) == signature(rheap[r].representative)

all_coref_signatures == {coref_signature(coreferences[k]) : k \in 1..Len(coreferences)}

\* coref_entity_lookup[sig]: the last chain stored under sig.
coref_entity_lookup(sig) ==
    coreferences[Max({k \in 1..Len(coreferences) : coref_signature(coreferences[k]) = sig})]

all_coref_tokens ==
    UNION {UNION {{<<mheap[m].sentence_id, mheap[m].tokens[t][2]>> :
                        t \in 1..Len(mheap[m].tokens)} :
                    m \in Range(rheap[coreferences[k]].mentions)} :
            k \in 1..Len(coreferences)}

novel_ner_signatures == all_ner_signatures \ all_coref_tokens

valid_coref_signatures == all_coref_signatures \cap all_ner_signatures

\* self.references before the novel entities are added, in each order the
\* iteration over the set valid_coref_signatures may take.
kept_coreferences_ignore_flag ==
    {[k \in 1..Len(order) |-> coref_entity_lookup(order[k])] :
        order \in Orderings(valid_coref_signatures)}

kept_coreferences ==
    IF config.exclude_non_ner_coreferences
    THEN {[k \in 1..Len(order) |-> coref_entity_lookup(order[k])] :
            order \in Orderings(valid_coref_signatures)}
    ELSE {coreferences}

\* The end of the <coreference> elements and _standardize_coreferencing.  The
\* novel signatures are a set: the promoted entities are appended, and given
\* their ids, in whichever order its iteration takes.
FinishCoreferences ==
    /\ pc = "build_coreferences"
    /\ \E kept \in kept_coreferences : \E novel \in Orderings(novel_ner_signatures) :
        LET promoted == [k \in 1..Len(novel) |->
                            Reference(coref_id_after(next_coref_id, k) - 1,
                                      <<ner_entity_lookup(novel[k])>>,
                                      ner_entity_lookup(novel[k]))]
        IN  /\ rheap' = rheap \o promoted
            /\ references' = kept \o [k \in 1..Len(novel) |-> Len(rheap) + k]
            /\ next_coref_id' = coref_id_after(next_coref_id, Len(novel))
            /\ attrs' = attrs \cup {"references"} \cup
                        (IF novel = <<>> THEN {} ELSE {"next_coref_id"})
    /\ pc' = "link_references"
    /\ UNCHANGED <<config, sentences, tokens, tokens_by_offset, sentence, mheap,
                   coreferences, coreference, ref_ptr, disambiguated_references,
                   iter, inner, exception, call>>

---------------------------------------------------------------------------
(* _link_references.                                                       *)

TokenAt(sents, key) == sents[key[1] + 1].tokens[key[2] + 1]

TokenIds(toks) == {toks[k][2] : k \in 1..Len(toks)}

\* token['mentions'].append(m) for every token of toks.
append_to_tokens(sents, toks, m) ==
    [s \in 1..Len(sents) |->
        [sents[s] EXCEPT !.tokens =
            [i \in 1..Len(sents[s].tokens) |->
                IF <<s - 1, i - 1>> \in Range(toks)
                THEN [sents[s].tokens[i] EXCEPT !.mentions = Append(@, m)]
                ELSE sents[s].tokens[i]]]]

\* The extent of a mention over its tokens.
mention_extent_first_last(toks) == <<toks[1][2], toks[1][2]>>

mention_extent(toks) == <<Min(TokenIds(toks)), Max(TokenIds(toks))>>

\* The body of the inner loop of _link_references for mention m of
\* reference r; st holds the sentences and the mention dictionaries.
link_mention(st, r, m) ==
    LET toks == st.mheap[m].tokens
        linked == append_to_tokens(st.sentences, toks, m)
        mention_sentence_id == toks[1][1]
    IN  [sentences |-> [linked EXCEPT ![mention_sentence_id + 1].mentions = Append(@, m)],
         mheap |-> [st.mheap EXCEPT ![m].reference = r,
                                   ![m].start = mention_extent(toks)[1],
                                   ![m].end = mention_extent(toks)[2]]]

RECURSIVE link_mentions_from(_, _, _)
link_mentions_from(st, r, k) ==
    IF k > Len(rheap[r].mentions) THEN st
    ELSE link_mentions_from(link_mention(st, r, rheap[r].mentions[k]), r, k + 1)

\* The body of the outer loop for reference r.
link_reference(st, r) ==
    LET after == link_mentions_from(st, r, 1)
        ref_sentence_ids ==
            UNION {{mheap[m].tokens[t][1] : t \in 1..Len(mheap[m].tokens)} :
                    m \in Range(rheap[r].mentions)}
    IN  [after EXCEPT !.sentences =
            [s \in 1..Len(after.sentences) |->
                IF (s - 1) \in ref_sentence_ids
                THEN [after.sentences[s] EXCEPT !.references = Append(@, r)]
                ELSE after.sentences[s]]]

RECURSIVE link_references_from(_, _)
link_references_from(st, k) ==
    IF k > Len(references) THEN st
    ELSE link_references_from(link_reference(st, references[k]), k + 1)

\* _link_references, and the return to __init__: on to _read_aida_json when
\* a feed was given.
LinkReferences ==
    /\ pc = "link_references"
    /\ LET st == link_references_from([sentences |-> sentences, mheap |-> mheap], 1)
       IN  /\ sentences' = st.sentences
           /\ mheap' = st.mheap
    /\ pc' = IF config.aida_json THEN "read_aida" ELSE "done"
    /\ iter' = 0
    /\ UNCHANGED <<config, attrs, tokens, tokens_by_offset, sentence, rheap,
                   coreferences, coreference, references, next_coref_id, ref_ptr,
                   disambiguated_references, inner, exception, call>>

---------------------------------------------------------------------------
(* _read_aida_json: the feed and the linking of its mentions.              *)

\* A string of the feed's type lists is the sequence of its characters.
Yago(c) == <<"Y", "A", "G", "O", "_", c>>

\* aida_data['entityMetadata'] of the feed: the identifiers it describes.
entityMetadata ==
    [kbid \in {"A", "B"} |->
        [type |-> IF kbid = "A" THEN <<Yago("p")>> ELSE <<Yago("o"), Yago("g")>>]]

\* kbIdentifier.decode('unicode-escape') on the identifiers of the model:
\* an escape sequence becomes the character it names, other text is kept.
unicode_escape_decode(kbid) == IF kbid = "\\u0042" THEN "B" ELSE kbid

\* t[len('YAGO_'):]
strip_prefix(t) == SubSeq(t, 6, Len(t))

\* A mention of the feed with a bestEntity, and one without.
AidaMention(offset, length, kbid, score) ==
    [offset |-> offset, length |-> length,
     bestEntity |-> [kbIdentifier |-> kbid, disambiguationScore |-> score]]

AidaMentionNoEntity(offset, length) == [offset |-> offset, length |-> length]

\* len(self.text): the markup is longer than the text it annotates.
LenText == Len(tokens) * Stride + MarkupLen

\* _get_token_after: the key of the first token beginning at or after
\* pointer; NoneToken when the KeyError is re-raised at the end of the text.
RECURSIVE get_token_after(_)
get_token_after(pointer) ==
    IF pointer \in DOMAIN tokens_by_offset THEN tokens_by_offset[pointer]
    ELSE IF pointer + 1 > LenText THEN NoneToken
    ELSE get_token_after(pointer + 1)

\* The accumulation of a token's mentions, skipping a (start, end) pair
\* already seen.
RECURSIVE add_mentions(_, _, _)
add_mentions(mentions, token_mentions, k) ==
    IF k > Len(token_mentions) THEN mentions
    ELSE LET m == token_mentions[k]
             seen_mentions == {<<mheap[x].start, mheap[x].end>> : x \in Range(mentions)}
         IN  add_mentions(
                IF <<mheap[m].start, mheap[m].end>> \notin seen_mentions
                THEN Append(mentions, m) ELSE mentions,
                token_mentions, k + 1)

\* The while loop of _find_or_create_mention_by_offset_range.
RECURSIVE scan_range(_, _, _)
scan_range(pointer, end, acc) ==
    IF ~(pointer <= end) THEN acc
    ELSE LET key == get_token_after(pointer)
         IN  IF key = NoneToken THEN [acc EXCEPT !.raised = TRUE]
             ELSE LET token == TokenAt(sentences, key)
                  IN  IF token.character_offset_end > end THEN acc
                      ELSE scan_range(token.character_offset_end, end,
                              [acc EXCEPT
                                 !.found_tokens = Append(@, key),
                                 !.mentions = add_mentions(@, token.mentions, 1)])

found_in_range(start, length) ==
    scan_range(start, start + length,
               [found_tokens |-> <<>>, mentions |-> <<>>, raised |-> FALSE])

\* A mention dictionary with its tokens in place of their keys, as
\* _find_best_mention_overlap reads it.
MentionView(m) ==
    [mheap[m] EXCEPT !.tokens = [k \in 1..Len(@) |-> TokenAt(sentences, @[k])]]

\* The mentions _find_or_create_mention_by_offset_range may return among the
\* candidates found (none when it creates one).
chosen(candidates, start, end) ==
    IF Len(candidates) = 1 THEN {candidates[1]}
    ELSE IF Len(candidates) > 0
    THEN {candidates[i] :
            i \in find_best_mention_overlap(
                    [k \in 1..Len(candidates) |-> MentionView(candidates[k])],
                    start, end)}
    ELSE {}

\* The fields _link_aida_mention sets on the mention it found.
attach(mention, kbid, score, types) ==
    [mention EXCEPT !.kbIdentifier = kbid, !.disambiguationScore = score,
                    !.types = types]

\* _link_aida_mention for one mention of the feed.
LinkAidaMention(MaxAida, AidaMentions) ==
    /\ pc = "read_aida"
    /\ iter < MaxAida
    /\ iter' = iter + 1
    /\ \E aida_mention \in AidaMentions :
        IF \/ "bestEntity" \notin DOMAIN aida_mention
           \/ unicode_escape_decode(aida_mention.bestEntity.kbIdentifier)
                \notin DOMAIN entityMetadata
        THEN \* KeyError, caught: the mention is skipped
            /\ call' = [fn |-> "link_aida_mention", aida_mention |-> aida_mention,
                        outcome |-> "no entity", mentions |-> <<>>, mention |-> None]
            /\ UNCHANGED <<pc, exception, sentences, mheap, rheap, references,
                           next_coref_id, attrs>>
        ELSE
            LET kbid == unicode_escape_decode(aida_mention.bestEntity.kbIdentifier)
                score == aida_mention.bestEntity.disambiguationScore
                types == [k \in 1..Len(entityMetadata[kbid].type) |->
                            strip_prefix(entityMetadata[kbid].type[k])]
                start == aida_mention.offset
                end == start + aida_mention.length
                found == found_in_range(start, aida_mention.length)
            IN  IF found.raised
                THEN \* the KeyError of _get_token_after is not caught
                    /\ Raise("KeyError")
                    /\ call' = [fn |-> "link_aida_mention", aida_mention |-> aida_mention,
                                outcome |-> "raised", mentions |-> <<>>, mention |-> None]
                    /\ UNCHANGED <<sentences, mheap, rheap, references,
                                   next_coref_id, attrs>>
                ELSE IF Len(found.found_tokens) = 0
                THEN
                    /\ call' = [fn |-> "link_aida_mention", aida_mention |-> aida_mention,
                                outcome |-> "no tokens", mentions |-> <<>>, mention |-> None]
                    /\ UNCHANGED <<pc, exception, sentences, mheap, rheap, references,
                                   next_coref_id, attrs>>
                ELSE IF Len(found.mentions) > 0
                THEN \E m \in chosen(found.mentions, start, end) :
                    /\ mheap' = [mheap EXCEPT ![m] = attach(@, kbid, score, types)]
                    /\ call' = [fn |-> "link_aida_mention", aida_mention |-> aida_mention,
                                outcome |-> "found", mentions |-> found.mentions,
                                mention |-> m]
                    /\ UNCHANGED <<pc, exception, sentences, rheap, references,
                                   next_coref_id, attrs>>
                ELSE
                    LET sentence_id == found.found_tokens[1][1]
                        new == Len(mheap) + 1
                        ref == Len(rheap) + 1
                        extent == mention_extent(found.found_tokens)
                        new_mention ==
                            [Mention(sentence_id, found.found_tokens,
                                     find_head([k \in 1..Len(found.found_tokens) |->
                                        TokenAt(sentences, found.found_tokens[k])]))
                             EXCEPT !.start = extent[1], !.end = extent[2],
                                    !.reference = ref]
                        linked == append_to_tokens(sentences, found.found_tokens, new)
                    IN  /\ next_coref_id' = get_next_coref_id(next_coref_id)
                        /\ attrs' = attrs \cup {"next_coref_id"}
                        /\ rheap' = Append(rheap,
                                Reference(next_coref_id' - 1, <<new>>, new))
                        /\ references' = Append(references, ref)
                        /\ sentences' = [linked EXCEPT
                                ![sentence_id + 1].mentions = Append(@, new),
                                ![sentence_id + 1].references = Append(@, ref)]
                        /\ mheap' = Append(mheap, attach(new_mention, kbid, score, types))
                        /\ call' = [fn |-> "link_aida_mention",
                                    aida_mention |-> aida_mention,
                                    outcome |-> "created", mentions |-> <<>>,
                                    mention |-> new]
                        /\ UNCHANGED <<pc, exception>>
    /\ UNCHANGED <<config, tokens, tokens_by_offset, sentence, coreferences,
                   coreference, ref_ptr, disambiguated_references, inner>>

\* The end of the feed's mentions and the head of the loop over the
\* references.
EndAidaMentions ==
    /\ pc = "read_aida"
    /\ pc' = "link_aida_reference"
    /\ disambiguated_references' = <<>>
    /\ attrs' = attrs \cup {"disambiguated_references"}
    /\ ref_ptr' = 0
    /\ UNCHANGED <<config, sentences, tokens, tokens_by_offset, sentence, mheap,
                   rheap, coreferences, coreference, references, next_coref_id,
                   iter, inner, exception, call>>

\* The tallies of _link_aida_reference over the mentions of reference r.
linked_mentions(r) ==
    {k \in 1..Len(rheap[r].mentions) : mheap[rheap[r].mentions[k]].kbIdentifier # NoKbid}

kbid_counter(r, kbid) ==
    Cardinality({k \in linked_mentions(r) :
                    mheap[rheap[r].mentions[k]].kbIdentifier = kbid})

RECURSIVE SumScores(_, _)
SumScores(r, ks) ==
    IF ks = {} THEN 0
    ELSE LET k == CHOOSE x \in ks : TRUE
         IN  mheap[rheap[r].mentions[k]].disambiguationScore + SumScores(r, ks \ {k})

kbid_score_tally(r, kbid) ==
    SumScores(r, {k \in linked_mentions(r) :
                    mheap[rheap[r].mentions[k]].kbIdentifier = kbid})

voted_kbids(r) ==
    {mheap[rheap[r].mentions[k]].kbIdentifier : k \in linked_mentions(r)}

\* The kbids with the most votes.
majority_vote_kbids_fewest(r) ==
    {kbid \in voted_kbids(r) :
        \A other \in voted_kbids(r) : kbid_counter(r, kbid) <= kbid_counter(r, other)}

majority_vote_kbids(r) ==
    {kbid \in voted_kbids(r) :
        \A other \in voted_kbids(r) : kbid_counter(r, kbid) >= kbid_counter(r, other)}

\* score_tallied_kbids[0][1]: the list is sorted by ascending summed score
\* and its first entry taken.  Entries of equal summed score keep the order
\* Counter.most_common gave them, which for equal counts is the order of a
\* dictionary: any of them may be first.
score_tallied_first(r) ==
    {kbid \in majority_vote_kbids(r) :
        \A other \in majority_vote_kbids(r) :
            kbid_score_tally(r, kbid) <= kbid_score_tally(r, other)}

\* _link_aida_reference for the next reference of self.references.
LinkAidaReference ==
    /\ pc = "link_aida_reference"
    /\ ref_ptr < Len(references)
    /\ LET r == references[ref_ptr + 1]
       IN  IF voted_kbids(r) = {}
           THEN UNCHANGED <<rheap, disambiguated_references>>
           ELSE \E kbId \in score_tallied_first(r) :
                /\ rheap' = [rheap EXCEPT
                        ![r].kbIdentifier = kbId,
                        ![r].types = [k \in 1..Len(entityMetadata[kbId].type) |->
                                        strip_prefix(entityMetadata[kbId].type[k])]]
                /\ disambiguated_references' = Append(disambiguated_references, r)
    /\ ref_ptr' = ref_ptr + 1
    /\ UNCHANGED <<pc, config, attrs, sentences, tokens, tokens_by_offset, sentence,
                   mheap, coreferences, coreference, references, next_coref_id,
                   iter, inner, exception, call>>

\* The end of the loop over the references: __init__ returns.
EndAidaReferences ==
    /\ pc = "link_aida_reference"
    /\ ref_ptr = Len(references)
    /\ pc' = "done"
    /\ UNCHANGED <<config, attrs, sentences, tokens, tokens_by_offset, sentence,
                   mheap, rheap, coreferences, coreference, references,
                   next_coref_id, ref_ptr, disambiguated_references, iter, inner,
                   exception, call>>

---------------------------------------------------------------------------
(* The construction of a document and the linking of a short feed.         *)

\* One sentence of two tokens without <dep> elements, at most MaxMentionTags
\* <mention> elements in all the chains together, and a feed of at most
\* MaxAida mentions.
MaxMentionTags == 2
MaxAida == 1
ShapesDoc == {<<2>>}

OptionsDoc ==
    {Options(d, FALSE, long, 1, non_ner, TRUE, aida) :
        d \in {"basic", "enhanced"}, long \in BOOLEAN, non_ner \in BOOLEAN,
        aida \in BOOLEAN}

NerTextsDoc == {"O", "PERSON"}

AidaMentionsDoc ==
    {AidaMention(0, l, "A", 1) : l \in {WordLen, Stride + WordLen}}
    \cup {AidaMentionNoEntity(0, WordLen)}

Next ==
    \/ Construct(OptionsDoc)
    \/ ReadTokens(ShapesDoc, NerTextsDoc)
    \/ EndSentence
    \/ EndSentences
    \/ BeginCoreference(MaxMentionTags, MaxMentionTags)
    \/ ReadMention(MaxMentionTags, MentionTags)
    \/ EndCoreference
    \/ FinishCoreferences
    \/ LinkReferences
    \/ LinkAidaMention(MaxAida, AidaMentionsDoc)
    \/ EndAidaMentions
    \/ LinkAidaReference
    \/ EndAidaReferences

Spec == Init /\ [][Next]_vars

---------------------------------------------------------------------------
(* The linking of a feed onto one document: two sentences of two tokens,   *)
(* no entity, and one chain read from the head of SampleChain.             *)

MaxAidaLink == 3
ShapesLink == {<<2, 2>>}

SampleChain ==
    <<[sentence |-> 1, start |-> 1, end |-> 2, headword |-> 1, representative |-> FALSE],
      [sentence |-> 1, start |-> 2, end |-> 3, headword |-> 2, representative |-> FALSE],
      [sentence |-> 1, start |-> 1, end |-> 3, headword |-> 2, representative |-> TRUE]>>

NextSampleTag == IF inner < Len(SampleChain) THEN {SampleChain[inner + 1]} ELSE {}

OptionsLink == {Options("collapsed-ccprocessed", FALSE, FALSE, 5, FALSE, TRUE, TRUE)}

\* Feed ranges over whole tokens (one token, two tokens of a sentence, two
\* tokens of two sentences), one that holds no token and one at the last
\* token of the text.
RangesLink == {<<0, WordLen>>, <<Stride, WordLen>>, <<0, Stride + WordLen>>,
               <<Stride, Stride + WordLen>>}

AidaMentionsLink ==
    {AidaMention(r[1], r[2], kbid, score) :
        r \in RangesLink, kbid \in {"A", "B"}, score \in {1, 2}}
    \cup {AidaMention(0, WordLen, kbid, 1) : kbid \in {"\\u0042", "C"}}
    \cup {AidaMentionNoEntity(0, WordLen)}
    \cup {AidaMention(1, 1, "A", 1), AidaMention(3 * Stride, WordLen, "A", 1)}

NextLink ==
    \/ Construct(OptionsLink)
    \/ ReadTokens(ShapesLink, {"O"})
    \/ EndSentence
    \/ EndSentences
    \/ BeginCoreference(1, Len(SampleChain))
    \/ ReadMention(Len(SampleChain), NextSampleTag)
    \/ EndCoreference
    \/ FinishCoreferences
    \/ LinkReferences
    \/ LinkAidaMention(MaxAidaLink, AidaMentionsLink)
    \/ EndAidaMentions
    \/ LinkAidaReference
    \/ EndAidaReferences

SpecLink == Init /\ [][NextLink]_vars

---------------------------------------------------------------------------
(* _find_best_mention_overlap and _get_coverage_score on their own: the    *)
(* candidates are mentions over the character ranges of OffsetsOverlap.    *)

MaxCandidates == 2
OffsetsOverlap == {10, 20, 22, 25}

RangesOverlap == {<<b, e>> : b \in OffsetsOverlap, e \in OffsetsOverlap} \cap
                 {r \in OffsetsOverlap \X OffsetsOverlap : r[1] < r[2]}

\* A mention over the characters [b, e): two tokens, the first beginning at
\* b and the last ending at e, or one token when the range is one character.
MentionOver(b, e) ==
    [Mention(0, <<>>, NoneToken) EXCEPT
        !.tokens = IF e - b >= 2
                   THEN <<Token(0, 0, "O", b, b + 1), Token(0, 1, "O", e - 1, e)>>
                   ELSE <<Token(0, 0, "O", b, e)>>,
        !.start = 0,
        !.end = IF e - b >= 2 THEN 1 ELSE 0]

InitOverlap ==
    /\ pc = "overlap"
    /\ config = NoOptions
    /\ attrs = {}
    /\ sentences = <<>>
    /\ tokens = <<>>
    /\ tokens_by_offset = [o \in {} |-> NoneToken]
    /\ sentence = NoSentence
    /\ mheap = <<>>
    /\ rheap = <<>>
    /\ coreferences = <<>>
    /\ coreference = NoCoreference
    /\ references = <<>>
    /\ next_coref_id = None
    /\ ref_ptr = 0
    /\ disambiguated_references = <<>>
    /\ iter = 0
    /\ inner = 0
    /\ exception = NoException
    /\ \E ranges \in SeqsUpTo(RangesOverlap, MaxCandidates) \ {<<>>} :
       \E target \in RangesOverlap :
          call = [fn |-> "arguments",
                  mentions |-> [k \in 1..Len(ranges) |-> MentionOver(ranges[k][1], ranges[k][2])],
                  start |-> target[1], end |-> target[2]]

\* A call of _find_best_mention_overlap on the arguments.
FindBestMentionOverlap ==
    /\ pc = "overlap"
    /\ call.fn = "arguments"
    /\ \E top \in find_best_mention_overlap(call.mentions, call.start, call.end) :
        call' = [call EXCEPT !.fn = "find_best_mention_overlap"] @@ (
                    "top_mention" :> top)
    /\ UNCHANGED <<pc, config, attrs, sentences, tokens, tokens_by_offset, sentence,
                   mheap, rheap, coreferences, coreference, references,
                   next_coref_id, ref_ptr, disambiguated_references, iter, inner,
                   exception>>

\* A call of _get_coverage_score on the range of the first mention and the
\* target range.
GetCoverageScore ==
    /\ pc = "overlap"
    /\ call.fn = "arguments"
    /\ call' = [fn |-> "get_coverage_score",
                range1 |-> mention_range(call.mentions[1]),
                range2 |-> <<call.start, call.end>>,
                score |-> get_coverage_score(mention_range(call.mentions[1]),
                                             <<call.start, call.end>>)]
    /\ UNCHANGED <<pc, config, attrs, sentences, tokens, tokens_by_offset, sentence,
                   mheap, rheap, coreferences, coreference, references,
                   next_coref_id, ref_ptr, disambiguated_references, iter, inner,
                   exception>>

NextOverlap ==
    \/ FindBestMentionOverlap
    \/ GetCoverageScore

SpecOverlap == InitOverlap /\ [][NextOverlap]_vars

---------------------------------------------------------------------------
(* Properties of the constructed document.                                 *)

\* _link_references has run: the document is at the feed, or constructed,
\* or the linking of the feed raised.
AfterLinkReferences ==
    \/ pc \in {"read_aida", "link_aida_reference"}
    \/ pc = "done" /\ config.corenlp_xml
    \/ pc = "raised" /\ exception = "KeyError"

HasRepresentative(r) ==
    /\ Len(rheap[r].mentions) >= 1
    /\ rheap[r].representative # None
    /\ \E k \in 1..Len(rheap[r].mentions) :
            rheap[r].mentions[k] = rheap[r].representative
    /\ \A k \in 1..Len(rheap[r].mentions) : rheap[r].mentions[k] \in 1..Len(mheap)

\* C2: in every state, every reference of self.references (a chain of the
\* markup, a promoted entity, a reference made while linking the feed), and
\* every chain of self.coreferences, has a non-empty mention list and one
\* representative, which is a member of that list; the long-mention filter
\* dropping the mention flagged representative does not break this.
C2_ReferencesHaveRepresentative ==
    /\ \A k \in 1..Len(references) : HasRepresentative(references[k])
    /\ \A k \in 1..Len(coreferences) : HasRepresentative(coreferences[k])

\* One chain was read and kept, and the last <mention> of it, flagged
\* representative, was dropped by the long-mention filter.
C2_Witness ==
    /\ pc = "link_references"
    /\ config.exclude_long_mentions
    /\ iter = 1
    /\ Len(coreferences) = 1
    /\ call.fn = "read_mention"
    /\ call.tag.representative
    /\ call.excluded
    /\ \E k \in 1..Len(references) :
            /\ references[k] = coreferences[1]
            /\ HasRepresentative(references[k])

\* C3: once _link_references has run, every mention of every reference of
\* the document, those made while linking the feed included, has start equal
\* to the least and end equal to the greatest id of its tokens.
C3_MentionExtentIsMinMax ==
    AfterLinkReferences =>
        \A k \in 1..Len(references) :
            \A j \in 1..Len(rheap[references[k]].mentions) :
                LET m == mheap[rheap[references[k]].mentions[j]]
                    ids == {m.tokens[t][2] : t \in 1..Len(m.tokens)}
                IN  /\ m.start \in ids
                    /\ m.end \in ids
                    /\ \A i \in ids : m.start <= i /\ i <= m.end

\* A feed mention over two tokens that carry no mention made a mention, in a
\* document that also has a chain.
C3_Witness ==
    /\ pc = "read_aida"
    /\ call.fn = "link_aida_mention"
    /\ call.outcome = "created"
    /\ Len(mheap[call.mention].tokens) = 2
    /\ mheap[call.mention].start < mheap[call.mention].end
    /\ Len(coreferences) = 1
    /\ \E k \in 1..Len(references) :
            call.mention \in Range(rheap[references[k]].mentions)

Entities == UNION {Range(sentences[s].entities) : s \in 1..Len(sentences)}

\* Some mention of some reference has the head token of entity e.
EntityCovered(e) ==
    \E k \in 1..Len(references) :
        \E j \in 1..Len(rheap[references[k]].mentions) :
            LET m == mheap[rheap[references[k]].mentions[j]]
            IN  \E t \in 1..Len(m.tokens) :
                    m.tokens[t] = <<mheap[e].sentence_id, mheap[e].head[2]>>

\* C4: when exclude_non_ner_coreferences is false then, once
\* _standardize_coreferencing has set self.references, the signature
\* (sentence id, head token id) of every entity is a token of some mention of
\* some reference, whatever the chains and the long-mention filter.
C4_EntitiesCovered ==
    ("references" \in attrs /\ ~config.exclude_non_ner_coreferences) =>
        \A e \in Entities : EntityCovered(e)

\* The filter dropped the last <mention> read, the one chain read is kept,
\* and an entity is a reference of its own.
C4_Witness ==
    /\ pc = "link_references"
    /\ ~config.exclude_non_ner_coreferences
    /\ config.exclude_long_mentions
    /\ call.fn = "read_mention"
    /\ call.excluded
    /\ Len(coreferences) = 1
    /\ \E e \in Entities : \E k \in 1..Len(references) :
            /\ rheap[references[k]].mentions = <<e>>
            /\ references[k] \notin Range(coreferences)

\* C8: a document constructed with a dependencies option that is not one of
\* the legal types is in no other state than the one where ValueError was
\* raised, and there nothing was parsed: no sentence, token or reference
\* exists and no attribute of the reading is set.
C8_IllegalDependenciesRaises ==
    (pc # "init" /\ config.dependencies \notin LEGAL_DEPENDENCY_TYPES) =>
        /\ pc = "raised"
        /\ exception = "ValueError"
        /\ attrs \cap (ReadingAttrs \cup {"dependencies", "references"}) = {}
        /\ sentences = <<>>
        /\ tokens = <<>>
        /\ references = <<>>
        /\ coreferences = <<>>
        /\ mheap = <<>>
        /\ rheap = <<>>

\* The option is illegal, and markup and a feed were both given.
C8_Witness ==
    /\ pc = "raised"
    /\ exception = "ValueError"
    /\ config.dependencies \notin LEGAL_DEPENDENCY_TYPES
    /\ config.corenlp_xml
    /\ config.aida_json

---------------------------------------------------------------------------
(* Properties of the linking of the feed.                                  *)

\* The number of mentions of reference r that carry kbid.
Votes(r, kbid) ==
    Cardinality({j \in 1..Len(rheap[r].mentions) :
                    mheap[rheap[r].mentions[j]].kbIdentifier = kbid})

Identifiers == {mheap[m].kbIdentifier : m \in 1..Len(mheap)} \ {NoKbid}

\* C5: every reference _link_aida_reference has processed, one of whose
\* mentions is linked, has a kbIdentifier, and no identifier is carried by
\* more of its mentions than that one; votes A, A, B give A.
C5_MajorityVote ==
    \A k \in 1..ref_ptr :
        LET r == references[k]
        IN  (\E kbid \in Identifiers : Votes(r, kbid) > 0) =>
                /\ rheap[r].kbIdentifier \in Identifiers
                /\ \A other \in Identifiers :
                        Votes(r, rheap[r].kbIdentifier) >= Votes(r, other)

\* A reference with votes A, A, B was given A.
C5_Witness ==
    \E k \in 1..ref_ptr :
        /\ Votes(references[k], "A") = 2
        /\ Votes(references[k], "B") = 1
        /\ rheap[references[k]].kbIdentifier = "A"

\* The tokens lying wholly in the range of a feed mention, and the mentions
\* they carry.
TokensInRange(am) ==
    {key \in Range(tokens) :
        /\ TokenAt(sentences, key).character_offset_begin >= am.offset
        /\ TokenAt(sentences, key).character_offset_end <= am.offset + am.length}

Carried(am) == UNION {Range(TokenAt(sentences, key).mentions) : key \in TokensInRange(am)}

HasEntity(am) ==
    /\ "bestEntity" \in DOMAIN am
    /\ unicode_escape_decode(am.bestEntity.kbIdentifier) \in DOMAIN entityMetadata

\* The characters of a range, and the Jaccard overlap of two ranges as the
\* pair <<size of the intersection, size of the union>>.
Chars(range) == range[1]..(range[2] - 1)

Jaccard(range1, range2) ==
    <<Cardinality(Chars(range1) \cap Chars(range2)),
      Cardinality(Chars(range1) \cup Chars(range2))>>

\* a <= b for two quotients of positive denominator.
QuotientLeq(a, b) == a[1] * b[2] <= b[1] * a[2]

\* The characters from the first token's begin to the last token's end.
Extent(toks) ==
    <<toks[1].character_offset_begin, toks[Len(toks)].character_offset_end>>

MentionJaccard(m, am) ==
    Jaccard(Extent([t \in 1..Len(mheap[m].tokens) |->
                        TokenAt(sentences, mheap[m].tokens[t])]),
            <<am.offset, am.offset + am.length>>)

\* m is the only mention given the fields of the feed mention am, and it is
\* a best-overlap candidate.
AttachedToBestOnly(m, am) ==
    /\ m \in Carried(am)
    /\ \A c \in Carried(am) : QuotientLeq(MentionJaccard(c, am), MentionJaccard(m, am))
    /\ mheap'[m].kbIdentifier = unicode_escape_decode(am.bestEntity.kbIdentifier)
    /\ mheap'[m].disambiguationScore = am.bestEntity.disambiguationScore
    /\ mheap'[m].types =
            [k \in 1..Len(entityMetadata[mheap'[m].kbIdentifier].type) |->
                SubSeq(entityMetadata[mheap'[m].kbIdentifier].type[k], 6, 6)]
    /\ Len(mheap') = Len(mheap)
    /\ \A c \in 1..Len(mheap) : c # m => mheap'[c] = mheap[c]

\* A step of _link_aida_mention for a feed mention with an entity whose
\* tokens carry several mentions.
LinkStepSeveral ==
    /\ pc = "read_aida"
    /\ iter' = iter + 1
    /\ HasEntity(call'.aida_mention)
    /\ Cardinality(Carried(call'.aida_mention)) > 1

\* C7: when the tokens in the range of a feed mention carry several
\* mentions, _link_aida_mention gives the feed's kbIdentifier,
\* disambiguationScore and types to exactly one of them, a candidate of
\* the largest overlap, and leaves every other mention as it was; a mention
\* gets a kbIdentifier from no other step.
C7_AttachesToBestOverlapOnly ==
    [][/\ LinkStepSeveral =>
            \E m \in Carried(call'.aida_mention) :
                AttachedToBestOnly(m, call'.aida_mention)
       /\ \A m \in 1..Len(mheap) :
            (mheap[m].kbIdentifier = NoKbid /\ mheap'[m].kbIdentifier # NoKbid) =>
                pc = "read_aida" /\ call'.mention = m]_vars

\* The same for the calls in which _find_or_create_mention_by_offset_range
\* returns: the range does not reach the last token of the text.
AttachesToBestOverlapOnlyWhenReturned ==
    [][(LinkStepSeveral /\ pc' # "raised") =>
            \E m \in Carried(call'.aida_mention) :
                AttachedToBestOnly(m, call'.aida_mention)]_vars

\* A feed mention over tokens carrying several mentions was linked to the
\* one of largest overlap, which is not the first of them.
LinkedAmongSeveral ==
    /\ pc = "read_aida"
    /\ call.fn = "link_aida_mention"
    /\ call.outcome = "found"
    /\ Cardinality(Carried(call.aida_mention)) > 1
    /\ call.mention # call.mentions[1]
    /\ mheap[call.mention].kbIdentifier # NoKbid

---------------------------------------------------------------------------
(* Properties of _find_best_mention_overlap and _get_coverage_score.       *)

CallJaccard(k) ==
    Jaccard(Extent(call.mentions[k].tokens), <<call.start, call.end>>)

\* C6: for every non-empty list of candidates and every target range,
\* the mention _find_best_mention_overlap returns is a candidate, and no
\* candidate has a larger Jaccard overlap between its character range and
\* the target.
C6_BestOverlapIsLargestJaccard ==
    call.fn = "find_best_mention_overlap" =>
        /\ call.top_mention \in 1..Len(call.mentions)
        /\ \A k \in 1..Len(call.mentions) :
                QuotientLeq(CallJaccard(k), CallJaccard(call.top_mention))

\* Two candidates of different overlap with the target, both positive: the
\* second was returned.
C6_Witness ==
    /\ call.fn = "find_best_mention_overlap"
    /\ Len(call.mentions) = 2
    /\ call.top_mention = 2
    /\ CallJaccard(1)[1] > 0
    /\ ~QuotientLeq(CallJaccard(2), CallJaccard(1))

\* The call on candidates over [10, 20) and [10, 25) with target [10, 22).
ScenarioCall ==
    /\ call.fn = "find_best_mention_overlap"
    /\ Len(call.mentions) = 2
    /\ Extent(call.mentions[1].tokens) = <<10, 20>>
    /\ Extent(call.mentions[2].tokens) = <<10, 25>>
    /\ <<call.start, call.end>> = <<10, 22>>

\* C9: with candidates over [10, 20) and [10, 25) and target [10, 22),
\* _find_best_mention_overlap returns the first candidate, whose overlap
\* 10/12 is larger than the 12/15 of the second.
C9_ScenarioReturnsFirst == ScenarioCall => call.top_mention = 1

C9_Witness == ScenarioCall /\ call.top_mention = 1

\* The scenario as stated: the second candidate is returned.
C9_ScenarioReturnsSecond == ScenarioCall => call.top_mention = 2

\* C10: for every pair of non-empty ranges the score of _get_coverage_score
\* is at least 0 and at most 1, also for ranges that are disjoint or touch,
\* and it is 1 for identical ranges.
C10_ScoreWithinUnitInterval ==
    call.fn = "get_coverage_score" =>
        /\ call.score[2] > 0
        /\ 0 <= call.score[1]
        /\ call.score[1] <= call.score[2]
        /\ call.range1 = call.range2 => call.score[1] = call.score[2]

---------------------------------------------------------------------------
(* The tie-break of _link_aida_reference.                                  *)

\* The sum of the disambiguation scores of the mentions of reference r, from
\* position j on, that carry kbid.
RECURSIVE ScoreSumFrom(_, _, _)
ScoreSumFrom(r, kbid, j) ==
    IF j > Len(rheap[r].mentions) THEN 0
    ELSE (IF mheap[rheap[r].mentions[j]].kbIdentifier = kbid
          THEN mheap[rheap[r].mentions[j]].disambiguationScore ELSE 0)
         + ScoreSumFrom(r, kbid, j + 1)

\* The identifiers with the highest vote count in reference r.
TopVoted(r) ==
    {kbid \in Identifiers :
        /\ Votes(r, kbid) > 0
        /\ \A other \in Identifiers : Votes(r, kbid) >= Votes(r, other)}

\* C11: when two or more identifiers tie for the highest vote count of a
\* processed reference, the identifier assigned to the reference is a tied
\* one whose summed disambiguation score is the highest among the tied.
C11_TieBreakHighestScore ==
    \A k \in 1..ref_ptr :
        LET r == references[k]
        IN  Cardinality(TopVoted(r)) >= 2 =>
                /\ rheap[r].kbIdentifier \in TopVoted(r)
                /\ \A other \in TopVoted(r) :
                        ScoreSumFrom(r, rheap[r].kbIdentifier, 1)
                            >= ScoreSumFrom(r, other, 1)

\* What the code does on a tie: the tied identifier of the lowest summed
\* score is assigned.
TieBreakLowestScore ==
    \A k \in 1..ref_ptr :
        LET r == references[k]
        IN  Cardinality(TopVoted(r)) >= 2 =>
                /\ rheap[r].kbIdentifier \in TopVoted(r)
                /\ \A other \in TopVoted(r) :
                        ScoreSumFrom(r, rheap[r].kbIdentifier, 1)
                            <= ScoreSumFrom(r, other, 1)

---------------------------------------------------------------------------
(* find_head on the entity of a sentence whose tokens all carry one entity *)
(* type, after any sequence of <dep> elements.                             *)

NextHead ==
    \/ Construct(OptionsDeps)
    \/ ReadTokens({<<NumTokensDeps>>}, {"PERSON"})
    \/ ReadDependency(MaxDeps, DepTagsDeps)
    \/ EndSentence
    \/ EndSentences

SpecHead == Init /\ [][NextHead]_vars

\* The ids of the tokens of the sentence s, among ids, that have a parent or
\* child link and no parent among ids.
HeadCandidates(s, ids) ==
    {i \in ids :
        LET token == s.tokens[i + 1]
        IN  /\ Len(token.parents) + Len(token.children) > 0
            /\ \A p \in 1..Len(token.parents) : token.parents[p][2] \notin ids}

\* The spans find_head was called on when the sentences were read: the runs
\* of tokens of one entity type, two or more tokens long.
EntitySpans(s) ==
    {ids \in SUBSET (0..(Len(s.tokens) - 1)) :
        /\ Cardinality(ids) >= 2
        /\ \A i \in ids : \A j \in ids : i < j =>
              \A k \in i..j : k \in ids /\ s.tokens[k + 1].ner = s.tokens[i + 1].ner
        /\ \A i \in ids : s.tokens[i + 1].ner # NoneNer
        /\ \A i \in ids : \A j \in {i - 1, i + 1} :
              (j \in 0..(Len(s.tokens) - 1) /\ j \notin ids) =>
                    s.tokens[j + 1].ner # s.tokens[i + 1].ner}

\* C12: for every entity span of two or more tokens of a sentence that was
\* read, the head find_head gave it is the first token of the span that has
\* a parent or child link and no parent in the span; when the span has no
\* such token there is no head, and the entity is not kept.
C12_FindHeadFirstCandidate ==
    \A n \in 1..Len(sentences) :
        \A ids \in EntitySpans(sentences[n]) :
            LET s == sentences[n]
                cands == HeadCandidates(s, ids)
                found == {e \in Range(s.entities) :
                            {mheap[e].tokens[t][2] : t \in 1..Len(mheap[e].tokens)} = ids}
            IN  IF cands = {} THEN found = {}
                ELSE /\ found # {}
                     /\ \A e \in found :
                            /\ mheap[e].head[2] \in cands
                            /\ \A i \in cands : mheap[e].head[2] <= i

\* What the code does: the head of a span of two or more tokens is its last
\* token, whatever the links.
FindHeadLastToken ==
    \A n \in 1..Len(sentences) :
        \A ids \in EntitySpans(sentences[n]) :
            \E e \in Range(sentences[n].entities) :
                /\ {mheap[e].tokens[t][2] : t \in 1..Len(mheap[e].tokens)} = ids
                /\ \A i \in ids : i <= mheap[e].head[2]
                /\ mheap[e].head[2] \in ids

\* A sentence was read in which the first token of the entity span governs
\* the second.
HeadOfLinkedSpan ==
    /\ Len(sentences) = 1
    /\ \E ids \in EntitySpans(sentences[1]) :
            /\ 0 \in HeadCandidates(sentences[1], ids)
            /\ \E c \in 1..Len(sentences[1].tokens[1].children) :
                    sentences[1].tokens[1].children[c][2] = 1

---------------------------------------------------------------------------
(* Feed mentions whose range holds no token, or reaches the last token.    *)

\* A step of _link_aida_mention for the feed mention call'.aida_mention.
LinkStep ==
    /\ pc = "read_aida"
    /\ iter' = iter + 1

\* The step raised nothing and changed no mention, token or reference.
Skipped ==
    /\ pc' = pc
    /\ exception' = exception
    /\ mheap' = mheap
    /\ rheap' = rheap
    /\ sentences' = sentences
    /\ references' = references
    /\ next_coref_id' = next_coref_id

LastTokenBegin ==
    Max({TokenAt(sentences, tokens[k]).character_offset_begin : k \in 1..Len(tokens)})

\* C13: a feed mention with a best entity whose range contains no token is
\* skipped: linking it raises nothing and changes no mention, token or
\* reference, wherever the range lies.
C13_NoTokenRangeSkipped ==
    [][(LinkStep /\ HasEntity(call'.aida_mention)
            /\ TokensInRange(call'.aida_mention) = {}) => Skipped]_vars

\* The same for the ranges that start at or before the begin of the last
\* token of the document.
NoTokenRangeSkippedBeforeLastToken ==
    [][(LinkStep /\ HasEntity(call'.aida_mention)
            /\ TokensInRange(call'.aida_mention) = {}
            /\ tokens # <<>>
            /\ call'.aida_mention.offset <= LastTokenBegin) => Skipped]_vars

\* A range after the begin of the last token raises KeyError.
NoTokenRangeAfterLastTokenRaises ==
    [][(LinkStep /\ HasEntity(call'.aida_mention)
            /\ TokensInRange(call'.aida_mention) = {}
            /\ tokens # <<>>
            /\ call'.aida_mention.offset > LastTokenBegin)
        => (pc' = "raised" /\ exception' = "KeyError")]_vars

\* A feed mention whose range starts after the begin of the last token of a
\* document with tokens, and holds no token, raised KeyError.
RaisedAfterLastToken ==
    /\ pc = "raised"
    /\ exception = "KeyError"
    /\ tokens # <<>>
    /\ call.fn = "link_aida_mention"
    /\ call.aida_mention.offset > LastTokenBegin
    /\ TokensInRange(call.aida_mention) = {}

---------------------------------------------------------------------------
(* The chains kept by _standardize_coreferencing.                          *)

HeadSignature(m) == <<mheap[m].sentence_id, mheap[m].head[2]>>

EntitySignatures == {HeadSignature(e) : e \in Entities}

\* The chains of self.coreferences whose representative is backed by an
\* entity, and the chains found in self.references.
EntityBackedChains ==
    {c \in Range(coreferences) : HeadSignature(rheap[c].representative) \in EntitySignatures}

ChainsInReferences == Range(references) \cap Range(coreferences)

\* C14: when exclude_non_ner_coreferences is true then, once
\* _standardize_coreferencing has set self.references, the chains in it are
\* exactly the chains of self.coreferences whose representative signature is
\* an entity signature, also when two chains have the same signature.
C14_ExactlyEntityBackedChainsKept ==
    ("references" \in attrs /\ config.exclude_non_ner_coreferences) =>
        ChainsInReferences = EntityBackedChains

\* What the code does: no other chain is kept, and of the entity-backed
\* chains with one representative signature the last is kept and no other.
LastChainOfSignatureKept ==
    ("references" \in attrs /\ config.exclude_non_ner_coreferences) =>
        /\ ChainsInReferences \subseteq EntityBackedChains
        /\ \A k \in 1..Len(coreferences) :
              coreferences[k] \in EntityBackedChains =>
                (coreferences[k] \in ChainsInReferences <=>
                    \A j \in (k + 1)..Len(coreferences) :
                        HeadSignature(rheap[coreferences[j]].representative)
                            # HeadSignature(rheap[coreferences[k]].representative))

\* Two chains with one entity-backed representative signature were read.
TwoChainsOfOneSignature ==
    /\ pc = "link_references"
    /\ config.exclude_non_ner_coreferences
    /\ Cardinality(EntityBackedChains) = 2
    /\ Cardinality(ChainsInReferences) = 1

\* C15: once _standardize_coreferencing has set self.references, every
\* entity of the document has a reference one of whose mentions contains the
\* entity's head token, under every configuration.
C15_EveryEntityHasReference ==
    "references" \in attrs => \A e \in Entities : EntityCovered(e)

\* With exclude_non_ner_coreferences true, an entity is left without a
\* reference only when its head token lies in a mention of a chain that is
\* not in self.references.
UncoveredEntityLiesInDiscardedChain ==
    "references" \in attrs =>
        \A e \in Entities :
            EntityCovered(e) \/
                /\ config.exclude_non_ner_coreferences
                /\ \E c \in Range(coreferences) \ Range(references) :
                     \E j \in 1..Len(rheap[c].mentions) :
                        HeadSignature(e) \in Range(mheap[rheap[c].mentions[j]].tokens)

---------------------------------------------------------------------------
(* _read_entities on one sentence of every sequence of entity types, with  *)
(* and without the exclusion of the ordinal types.                         *)

NumTokensEntities == 3
MaxDepsEntities == 1

OptionsEntities ==
    {Options("basic", ordinal, FALSE, 5, FALSE, TRUE, FALSE) : ordinal \in BOOLEAN}

NerTextsEntities == {"O", "PERSON", "LOCATION", "ORDINAL"}

DepTagsEntities ==
    {[governor |-> 1, dependent |-> 2, type |-> "nn"],
     [governor |-> 0, dependent |-> 1, type |-> "root"]}

NextEntities ==
    \/ Construct(OptionsEntities)
    \/ ReadTokens({<<NumTokensEntities>>}, NerTextsEntities)
    \/ ReadDependency(MaxDepsEntities, DepTagsEntities)
    \/ EndSentence
    \/ EndSentences

SpecEntities == Init /\ [][NextEntities]_vars

\* Token i of sentence s has an entity type that is not excluded.
Typed(s, i) ==
    /\ i \in 0..(Len(s.tokens) - 1)
    /\ s.tokens[i + 1].ner # NoneNer
    /\ ~(config.exclude_ordinal_NERs /\ s.tokens[i + 1].ner \in EXCLUDE_NER_TYPES)

SameRun(s, i, j) == Typed(s, i) /\ Typed(s, j) /\ s.tokens[i + 1].ner = s.tokens[j + 1].ner

\* The maximal runs a..b of typed tokens of one type, as <<a, b>>.
MaximalRuns(s) ==
    {run \in (0..(Len(s.tokens) - 1)) \X (0..(Len(s.tokens) - 1)) :
        /\ run[1] <= run[2]
        /\ \A i \in run[1]..run[2] : SameRun(s, run[1], i)
        /\ ~SameRun(s, run[1], run[1] - 1)
        /\ ~SameRun(s, run[2], run[2] + 1)}

\* The tokens of the entity at position e of s.entities.
EntityTokens(s, e) == mheap[s.entities[e]].tokens

\* C16: for every sentence read, under either setting of
\* exclude_ordinal_NERs, the entities of _read_entities are exactly the
\* maximal runs of consecutive tokens of one non-null, non-excluded type,
\* each once and in order; every such token is in exactly one entity, and a
\* token's entity_idx is None when it is in no entity and otherwise the
\* position in the entity list of the entity that holds it.
C16_EntitiesAreMaximalRuns ==
    \A n \in 1..Len(sentences) :
        LET s == sentences[n]
        IN  /\ Len(s.entities) = Cardinality(MaximalRuns(s))
            /\ \A e \in 1..Len(s.entities) :
                  \E run \in MaximalRuns(s) :
                     EntityTokens(s, e) =
                        [k \in 1..(run[2] - run[1] + 1) |-> <<s.id, run[1] + k - 1>>]
            /\ \A e \in 1..Len(s.entities) : \A f \in 1..Len(s.entities) :
                  e < f => EntityTokens(s, e)[1][2] < EntityTokens(s, f)[1][2]
            /\ \A i \in 0..(Len(s.tokens) - 1) :
                  IF Typed(s, i)
                  THEN /\ s.tokens[i + 1].entity_idx \in 0..(Len(s.entities) - 1)
                       /\ <<s.id, i>> \in Range(EntityTokens(s, s.tokens[i + 1].entity_idx + 1))
                       /\ Cardinality({e \in 1..Len(s.entities) :
                                <<s.id, i>> \in Range(EntityTokens(s, e))}) = 1
                  ELSE /\ s.tokens[i + 1].entity_idx = None
                       /\ \A e \in 1..Len(s.entities) :
                                <<s.id, i>> \notin Range(EntityTokens(s, e))

\* Types [PERSON, PERSON, null] gave one entity over tokens 0-1.
C16_Witness ==
    /\ Len(sentences) = 1
    /\ [i \in 1..Len(sentences[1].tokens) |-> sentences[1].tokens[i].ner]
            = <<"PERSON", "PERSON", NoneNer>>
    /\ Len(sentences[1].entities) = 1
    /\ EntityTokens(sentences[1], 1) = <<<<0, 0>>, <<0, 1>>>>
    /\ sentences[1].tokens[1].entity_idx = 0
    /\ sentences[1].tokens[3].entity_idx = None

---------------------------------------------------------------------------
(* The mention and reference made for a feed range whose tokens carry no   *)
(* mention.                                                                *)

ReferenceIds == {rheap[r].id : r \in 1..Len(rheap)}

\* The step made one mention over the tokens of the range of am and one
\* reference of that mention alone, with an id no reference had, and listed
\* them on the tokens, the owning sentence and the document.
CreatedFor(am) ==
    LET new == Len(mheap) + 1
        ref == Len(rheap) + 1
    IN  /\ Len(mheap') = new
        /\ Len(rheap') = ref
        /\ \A m \in 1..Len(mheap) : mheap'[m] = mheap[m]
        /\ \A r \in 1..Len(rheap) : rheap'[r] = rheap[r]
        /\ Range(mheap'[new].tokens) = TokensInRange(am)
        /\ Len(mheap'[new].tokens) = Cardinality(TokensInRange(am))
        /\ mheap'[new].reference = ref
        /\ rheap'[ref].mentions = <<new>>
        /\ rheap'[ref].representative = new
        /\ rheap'[ref].id \notin ReferenceIds
        /\ references' = Append(references, ref)
        /\ \A key \in Range(tokens) :
              TokenAt(sentences', key).mentions =
                 IF key \in TokensInRange(am)
                 THEN Append(TokenAt(sentences, key).mentions, new)
                 ELSE TokenAt(sentences, key).mentions
        /\ \A n \in 1..Len(sentences) :
              IF n = mheap'[new].sentence_id + 1
              THEN /\ sentences'[n].mentions = Append(sentences[n].mentions, new)
                   /\ sentences'[n].references = Append(sentences[n].references, ref)
              ELSE /\ sentences'[n].mentions = sentences[n].mentions
                   /\ sentences'[n].references = sentences[n].references

\* The mentions made by earlier steps of the linking: those of a reference
\* that is no chain and no promoted entity.
Synthesized ==
    {m \in 1..Len(mheap) :
        /\ m \notin Entities
        /\ mheap[m].reference # None
        /\ mheap[m].reference \notin Range(coreferences)}

\* The step reused the mention m and made nothing.
ReusedBy(m) ==
    /\ call'.mention = m
    /\ Len(mheap') = Len(mheap)
    /\ rheap' = rheap
    /\ references' = references
    /\ sentences' = sentences
    /\ next_coref_id' = next_coref_id

NoMentionStep ==
    /\ LinkStep
    /\ HasEntity(call'.aida_mention)
    /\ TokensInRange(call'.aida_mention) # {}
    /\ Carried(call'.aida_mention) = {}

SameRangeStep(m) ==
    /\ LinkStep
    /\ HasEntity(call'.aida_mention)
    /\ TokensInRange(call'.aida_mention) = Range(mheap[m].tokens)

\* C17: a feed mention over tokens that carry no mention makes exactly one
\* mention over exactly those tokens and one reference of that mention
\* alone with a fresh id, listed on the tokens, the owning sentence and the
\* document; a later feed mention over the tokens of a mention made this
\* way reuses it and makes nothing.
C17_CreatesOnceThenReuses ==
    [][/\ NoMentionStep => CreatedFor(call'.aida_mention)
       /\ \A m \in Synthesized : SameRangeStep(m) => ReusedBy(m)]_vars

\* The same for the steps in which _find_or_create_mention_by_offset_range
\* returns: the range does not reach the last token of the text.
CreatesOnceThenReusesWhenReturned ==
    [][pc' # "raised" =>
        /\ NoMentionStep => CreatedFor(call'.aida_mention)
        /\ \A m \in Synthesized : SameRangeStep(m) => ReusedBy(m)]_vars

\* A mention made for a feed range was reused by the next feed mention, and
\* a chain was read before.
ReusedSynthesized ==
    /\ pc = "read_aida"
    /\ call.fn = "link_aida_mention"
    /\ call.outcome = "found"
    /\ call.mention \in Synthesized
    /\ Len(mheap[call.mention].tokens) = 2
    /\ Len(coreferences) = 1

\* C18: for every feed mention with a best entity whose range wholly
\* contains a token, _find_or_create_mention_by_offset_range returns a
\* mention, found or made, and raises nothing, also when the last token in
\* the range is the last token of the document.
C18_TokenRangeReturnsMention ==
    [][(LinkStep /\ HasEntity(call'.aida_mention)
            /\ TokensInRange(call'.aida_mention) # {})
        => /\ pc' # "raised"
           /\ exception' = exception
           /\ call'.mention \in 1..Len(mheap')]_vars

\* What the code does: such a call raises KeyError exactly when the last
\* token of the document is in the range, and returns a mention otherwise.
TokenRangeRaisesAtLastToken ==
    [][(LinkStep /\ HasEntity(call'.aida_mention)
            /\ TokensInRange(call'.aida_mention) # {})
        => IF tokens[Len(tokens)] \in TokensInRange(call'.aida_mention)
           THEN pc' = "raised" /\ exception' = "KeyError"
           ELSE pc' # "raised" /\ call'.mention \in 1..Len(mheap')]_vars

---------------------------------------------------------------------------
(* The two directions of the dependency edges.                             *)

\* The edges <<relation, governor id, dependent id>> held in the children
\* lists, and those held in the parents lists.
ChildEdges(toks) ==
    UNION {{<<c[1], i - 1, c[2]>> : c \in Range(toks[i].children)} : i \in 1..Len(toks)}

ParentEdges(toks) ==
    UNION {{<<p[1], p[2], i - 1>> : p \in Range(toks[i].parents)} : i \in 1..Len(toks)}

\* C19: whatever <dep> elements have been read, (relation, d) is in the
\* children of g if and only if (relation, g) is in the parents of d, in
\* the sentence being read and in every sentence read.
C19_ParentsMirrorChildren ==
    /\ sentence # NoSentence => ChildEdges(sentence.tokens) = ParentEdges(sentence.tokens)
    /\ \A s \in 1..Len(sentences) :
            ChildEdges(sentences[s].tokens) = ParentEdges(sentences[s].tokens)

\* What the code keeps: every parent edge has its child edge, and the two
\* agree as long as no root edge was read.
ParentEdgesHaveChildEdges ==
    /\ sentence # NoSentence =>
            /\ ParentEdges(sentence.tokens) \subseteq ChildEdges(sentence.tokens)
            /\ sentence.root = None =>
                    ChildEdges(sentence.tokens) = ParentEdges(sentence.tokens)
    /\ \A s \in 1..Len(sentences) :
            ParentEdges(sentences[s].tokens) \subseteq ChildEdges(sentences[s].tokens)

---------------------------------------------------------------------------
(* The sentence of a mention.                                              *)

ReferenceMentions ==
    UNION {Range(rheap[references[k]].mentions) : k \in 1..Len(references)}

TokensInOwnSentence(m) ==
    \A t \in 1..Len(mheap[m].tokens) : mheap[m].tokens[t][1] = mheap[m].sentence_id

ListedInOwnSentence(m) ==
    /\ mheap[m].sentence_id + 1 \in 1..Len(sentences)
    /\ m \in Range(sentences[mheap[m].sentence_id + 1].mentions)

\* C20: once _link_references has run, and after any feed mentions have
\* been linked, every token of every mention of every reference belongs to
\* the sentence named by the mention's sentence_id, and the mention is in
\* that sentence's mention list; so too for the mentions made for a feed
\* range.
C20_MentionWithinItsSentence ==
    AfterLinkReferences =>
        \A m \in ReferenceMentions : TokensInOwnSentence(m) /\ ListedInOwnSentence(m)

\* What the code keeps: every mention is listed in the sentence named by its
\* sentence_id, which is the sentence of its first token, and only a mention
\* made for a feed range has tokens of another sentence.
MentionListedInSentenceOfFirstToken ==
    AfterLinkReferences =>
        \A m \in ReferenceMentions :
            /\ ListedInOwnSentence(m)
            /\ mheap[m].tokens[1][1] = mheap[m].sentence_id
            /\ TokensInOwnSentence(m) \/ m \in Synthesized
=============================================================================
